---- MODULE Spec2Model ----
(***************************************************************************)
(* Model of the stream reassembly engine of rust-bitcoin                   *)
(* (src/network/stream_reader.rs): StreamReader::read_messages and         *)
(* StreamReader::parse over a chunked byte transport.                      *)
(*                                                                         *)
(* The envelope codec (encode::deserialize_partial::<RawNetworkMessage>)   *)
(* lives outside the two source files; it is modelled from the three-way   *)
(* result contract of the specification (message + consumed count,         *)
(* incomplete, malformed) over a small wire format:                        *)
(*     <<command, payload length>> \o payload                              *)
(***************************************************************************)
EXTENDS Integers, Sequences, FiniteSets, TLC

\* ------------------------------------------------------------------ bounds
\* largest byte value of the model's byte alphabet (the code has 0..255)
MaxByte == 2
\* number of bytes the transport holds in total
MaxStream == 5
\* largest configured size of the scratch buffer of one read
MaxBufferSize == 5

Byte == 0..MaxByte

Min(a, b) == IF a < b THEN a ELSE b

\* ------------------------------------------------- envelope codec (wire)
\* fixed-size header: command tag, payload length
HeaderLen == 2
\* largest payload length the decoder accepts before it refuses to allocate
MaxPayloadLen == 1
\* the command tags the decoder recognises: every byte value but the largest
Commands == 0..(MaxByte - 1)

\* the error values of encode::Error that occur
ErrIncomplete == "Io(UnexpectedEof)"
ErrOversized == "OversizedVectorAllocation"
ErrCommand == "UnrecognizedNetworkCommand"
MalformedErrors == {ErrOversized, ErrCommand}
\* the failures of the transport's read
TransportErrors == {"Io(ConnectionReset)", "Io(TimedOut)"}

NoMessage == [command |-> -1, payload |-> <<>>]

\* the valid messages: a recognised command and a payload the decoder accepts
Payloads == UNION {[1..n -> Byte] : n \in 0..MaxPayloadLen}
Messages == [command : Commands, payload : Payloads]

\* wire bytes of one message
serialize(m) == <<m.command, Len(m.payload)>> \o m.payload

RECURSIVE serialize_all(_)
serialize_all(ms) ==
    IF ms = <<>> THEN <<>> ELSE serialize(Head(ms)) \o serialize_all(Tail(ms))

\* decode one envelope from the head of buf, reading the fields in order:
\* the header, then the payload, then the payload is interpreted by command.
\* Running out of bytes is "Incomplete", an invalid value is "Malformed".
deserialize_partial(buf) ==
    IF Len(buf) < HeaderLen
    THEN [kind |-> "Incomplete", err |-> ErrIncomplete, message |-> NoMessage, index |-> 0]
    ELSE IF buf[2] > MaxPayloadLen
    THEN [kind |-> "Malformed", err |-> ErrOversized, message |-> NoMessage, index |-> 0]
    ELSE IF Len(buf) < HeaderLen + buf[2]
    THEN [kind |-> "Incomplete", err |-> ErrIncomplete, message |-> NoMessage, index |-> 0]
    ELSE IF buf[1] \notin Commands
    THEN [kind |-> "Malformed", err |-> ErrCommand, message |-> NoMessage, index |-> 0]
    ELSE [kind |-> "Ok", err |-> "none",
          message |-> [command |-> buf[1],
                       payload |-> SubSeq(buf, HeaderLen + 1, HeaderLen + buf[2])],
          index |-> HeaderLen + buf[2]]

\* ------------------------------------------------------ StreamReader::parse
\* mutant of push: the new message is put in front of the collected ones
push_front(msgs, message) == <<message>> \o msgs

\* messages.push(message)
push(msgs, message) == Append(msgs, message)

\* mutant of drain: the whole buffer is removed, not the consumed prefix
drain_all(buf, index) == <<>>

\* self.unparsed.drain(..index)
drain(buf, index) == SubSeq(buf, index + 1, Len(buf))

\* mutant of parse_incomplete: the undecoded bytes are thrown away
parse_incomplete_clears(msgs, buf, attempts) ==
    [err |-> "none", messages |-> msgs, unparsed |-> <<>>,
     drained |-> msgs, stop |-> "incomplete", attempts |-> attempts]

\* mutant of parse_incomplete: the incomplete condition is passed up
parse_incomplete_err(msgs, buf, attempts) ==
    [err |-> ErrIncomplete, messages |-> <<>>, unparsed |-> buf,
     drained |-> msgs, stop |-> "incomplete", attempts |-> attempts]

\* the arm of the match taken for an incomplete decode: return Ok(messages)
parse_incomplete(msgs, buf, attempts) ==
    [err |-> "none", messages |-> msgs, unparsed |-> buf,
     drained |-> msgs, stop |-> "incomplete", attempts |-> attempts]

\* mutant of parse_malformed: the error is absorbed like an incomplete one
parse_malformed_swallowed(msgs, buf, attempts, err) ==
    [err |-> "none", messages |-> msgs, unparsed |-> buf,
     drained |-> msgs, stop |-> "malformed", attempts |-> attempts]

\* mutant of parse_malformed: the bytes that failed to decode are discarded
parse_malformed_skips(msgs, buf, attempts, err) ==
    [err |-> err, messages |-> <<>>, unparsed |-> <<>>,
     drained |-> msgs, stop |-> "malformed", attempts |-> attempts]

\* the arm of the match taken for any other error: return Err(err);
\* the local vector of messages is dropped
parse_malformed(msgs, buf, attempts, err) ==
    [err |-> err, messages |-> <<>>, unparsed |-> buf,
     drained |-> msgs, stop |-> "malformed", attempts |-> attempts]

\* mutant of parse_loop: the pass stops after its first successful decode
parse_loop_once(msgs, buf, attempts) ==
    IF Len(buf) = 0
    THEN [err |-> "none", messages |-> msgs, unparsed |-> buf,
          drained |-> msgs, stop |-> "empty", attempts |-> attempts]
    ELSE LET d == deserialize_partial(buf)
         IN  CASE d.kind = "Incomplete" -> parse_incomplete(msgs, buf, attempts + 1)
               [] d.kind = "Malformed" -> parse_malformed(msgs, buf, attempts + 1, d.err)
               [] OTHER ->
                    [err |-> "none", messages |-> push(msgs, d.message),
                     unparsed |-> drain(buf, d.index),
                     drained |-> push(msgs, d.message), stop |-> "empty",
                     attempts |-> attempts + 1]

\* mutant of parse_loop: the pass runs only while more than a header is buffered
RECURSIVE parse_loop_short(_, _, _)
parse_loop_short(msgs, buf, attempts) ==
    IF ~(Len(buf) > HeaderLen)
    THEN [err |-> "none", messages |-> msgs, unparsed |-> buf,
          drained |-> msgs, stop |-> "empty", attempts |-> attempts]
    ELSE LET d == deserialize_partial(buf)
         IN  CASE d.kind = "Incomplete" -> parse_incomplete(msgs, buf, attempts + 1)
               [] d.kind = "Malformed" -> parse_malformed(msgs, buf, attempts + 1, d.err)
               [] d.kind = "Ok" ->
                    parse_loop_short(push(msgs, d.message), drain(buf, d.index),
                                     attempts + 1)

\* the loop of parse, entered with the messages collected so far, the
\* current content of self.unparsed and the number of decode attempts made
RECURSIVE parse_loop(_, _, _)
parse_loop(msgs, buf, attempts) ==
    IF ~(Len(buf) > 0)
    THEN [err |-> "none", messages |-> msgs, unparsed |-> buf,
          drained |-> msgs, stop |-> "empty", attempts |-> attempts]
    ELSE LET d == deserialize_partial(buf)
         IN  CASE d.kind = "Incomplete" -> parse_incomplete(msgs, buf, attempts + 1)
               [] d.kind = "Malformed" -> parse_malformed(msgs, buf, attempts + 1, d.err)
               [] d.kind = "Ok" ->
                    parse_loop(push(msgs, d.message), drain(buf, d.index), attempts + 1)

parse(buf) == parse_loop(<<>>, buf, 0)

\* ------------------------------------------------------------------ state
VARIABLES
    stream,       \* all the bytes the transport will ever deliver
    pos,          \* how many of them the transport has delivered
    buffer_size,  \* StreamReader.buffer_size
    unparsed,     \* StreamReader.unparsed
    pc,           \* "idle": no call is running; "reading": inside the loop
    messages,     \* local of read_messages
    data,         \* local of read_messages: the scratch buffer
    result,       \* what the last call returned
    delivered,    \* history: all messages returned in Ok batches, in order
    drained,      \* history: all messages decoded and drained by parse
    last          \* history: the last loop iteration of read_messages

vars == <<stream, pos, buffer_size, unparsed, pc, messages, data, result,
          delivered, drained, last>>

NoResult == [kind |-> "none", messages |-> <<>>, err |-> "none"]
NoPass == [err |-> "none", messages |-> <<>>, unparsed |-> <<>>,
           drained |-> <<>>, stop |-> "none", attempts |-> 0]
NoLast == [read |-> "none", before |-> <<>>, count |-> 0, chunk |-> <<>>,
           parsed |-> FALSE, pass |-> NoPass]

Streams == UNION {[1..n -> Byte] : n \in 0..MaxStream}
\* the configured sizes: none, one byte, and everything at once; a read may
\* always return fewer bytes than the buffer holds
BufferSizes == {0, 1, MaxBufferSize}

\* StreamReader::new
Init ==
    /\ stream \in Streams
    /\ pos = 0
    /\ buffer_size \in BufferSizes
    /\ unparsed = <<>>
    /\ pc = "idle"
    /\ messages = <<>>
    /\ data = <<>>
    /\ result = NoResult
    /\ delivered = <<>>
    /\ drained = <<>>
    /\ last = NoLast

\* ------------------------------------------------ StreamReader::read_messages
\* mutant of loop_again: the call returns after its first iteration
loop_again_never(msgs) == FALSE

\* mutant of loop_again: the call waits until it has two messages
loop_again_until_two(msgs) == Len(msgs) < 2

\* while messages.len() == 0
loop_again(msgs) == Len(msgs) = 0

\* self.stream.read(&mut data): the first count bytes of data are overwritten
read_into(buf, chunk) ==
    [i \in 1..Len(buf) |-> IF i <= Len(chunk) THEN chunk[i] ELSE buf[i]]

\* mutant of extend: the new bytes replace the buffered ones
extend_replace(buf, scratch, count) ==
    IF count > 0 THEN SubSeq(scratch, 1, count) ELSE buf

\* mutant of extend: the whole scratch buffer is appended, stale bytes included
extend_stale(buf, scratch, count) ==
    IF count > 0 THEN buf \o scratch ELSE buf

\* if count > 0 { self.unparsed.extend(data[0..count].iter()) }
extend(buf, scratch, count) ==
    IF count > 0 THEN buf \o SubSeq(scratch, 1, count) ELSE buf

\* entry of read_messages: the two locals are created
Call ==
    /\ pc = "idle"
    /\ pc' = "reading"
    /\ messages' = <<>>
    /\ data' = [i \in 1..buffer_size |-> 0]
    /\ result' = NoResult
    /\ last' = NoLast
    /\ UNCHANGED <<stream, pos, buffer_size, unparsed, delivered, drained>>

\* one iteration of the loop whose transport read returns Ok(count)
Read(count) ==
    /\ pc = "reading"
    /\ LET chunk == SubSeq(stream, pos + 1, pos + count)
           scratch == read_into(data, chunk)
           pass == parse(extend(unparsed, scratch, count))
           msgs == messages \o pass.messages
       IN  /\ pos' = pos + count
           /\ unparsed' = pass.unparsed
           /\ drained' = drained \o pass.drained
           /\ last' = [read |-> "ok", before |-> unparsed, count |-> count,
                       chunk |-> chunk, parsed |-> TRUE, pass |-> pass]
           /\ IF pass.err # "none"
              THEN /\ pc' = "idle"
                   /\ result' = [kind |-> "Err", messages |-> <<>>, err |-> pass.err]
                   /\ messages' = <<>>
                   /\ data' = <<>>
                   /\ UNCHANGED delivered
              ELSE IF loop_again(msgs)
              THEN /\ pc' = "reading"
                   /\ messages' = msgs
                   /\ data' = scratch
                   /\ UNCHANGED <<result, delivered>>
              ELSE /\ pc' = "idle"
                   /\ result' = [kind |-> "Ok", messages |-> msgs, err |-> "none"]
                   /\ delivered' = delivered \o msgs
                   /\ messages' = <<>>
                   /\ data' = <<>>
    /\ UNCHANGED <<stream, buffer_size>>

\* mutant of ReadFail: the failed read also empties the buffer
ReadFail_clears(err) ==
    /\ pc = "reading"
    /\ pc' = "idle"
    /\ result' = [kind |-> "Err", messages |-> <<>>, err |-> err]
    /\ last' = [read |-> "failed", before |-> unparsed, count |-> 0,
                chunk |-> <<>>, parsed |-> FALSE, pass |-> NoPass]
    /\ messages' = <<>>
    /\ data' = <<>>
    /\ unparsed' = <<>>
    /\ UNCHANGED <<stream, pos, buffer_size, delivered, drained>>

\* one iteration of the loop whose transport read fails: the ? operator
\* returns the failure at once
ReadFail(err) ==
    /\ pc = "reading"
    /\ pc' = "idle"
    /\ result' = [kind |-> "Err", messages |-> <<>>, err |-> err]
    /\ last' = [read |-> "failed", before |-> unparsed, count |-> 0,
                chunk |-> <<>>, parsed |-> FALSE, pass |-> NoPass]
    /\ messages' = <<>>
    /\ data' = <<>>
    /\ UNCHANGED <<stream, pos, buffer_size, unparsed, delivered, drained>>

\* ----------------------------------- payload codec (message_blockdata.rs)
\* number of locator hashes a request carries at most
MaxLocators == 3

\* width of a Sha256dHash
HashLen == 32

\* little-endian bytes of the unsigned integer v, n bytes wide
RECURSIVE le_bytes(_, _)
le_bytes(v, n) == IF n = 0 THEN <<>> ELSE <<v % 256>> \o le_bytes(v \div 256, n - 1)

\* the unsigned integer whose little-endian bytes are given
RECURSIVE le_value(_)
le_value(bytes) == IF bytes = <<>> THEN 0 ELSE Head(bytes) + 256 * le_value(Tail(bytes))

\* concatenation of a sequence of byte sequences
RECURSIVE concat(_)
concat(ss) == IF ss = <<>> THEN <<>> ELSE Head(ss) \o concat(Tail(ss))

\* compact-size count prefix of a sequence
\* (a count of the model never needs the 8-byte form)
var_int(n) ==
    IF n < 253 THEN <<n>>
    ELSE IF n <= 65535 THEN <<253>> \o le_bytes(n, 2)
    ELSE <<254>> \o le_bytes(n, 4)

\* what a decoder returns: a value and the bytes consumed, or an error
NoValue == [type |-> "none"]
DecodeOk(value, consumed) ==
    [kind |-> "Ok", value |-> value, consumed |-> consumed, err |-> "none"]
DecodeErr(err) == [kind |-> "Err", value |-> NoValue, consumed |-> 0, err |-> err]
\* panic!: the decoder returns nothing, the thread unwinds
DecodePanic(text) == [kind |-> "Panic", value |-> NoValue, consumed |-> 0, err |-> text]
NoDecode == [kind |-> "none", value |-> NoValue, consumed |-> 0, err |-> "none"]

\* decode of a compact-size count prefix
var_int_decode(bytes) ==
    IF Len(bytes) < 1 THEN DecodeErr(ErrIncomplete)
    ELSE LET width == CASE bytes[1] < 253 -> 0
                        [] bytes[1] = 253 -> 2
                        [] bytes[1] = 254 -> 4
                        [] OTHER -> 8
         IN  IF width = 0 THEN DecodeOk(bytes[1], 1)
             ELSE IF Len(bytes) < 1 + width THEN DecodeErr(ErrIncomplete)
             ELSE DecodeOk(le_value(SubSeq(bytes, 2, 1 + width)), 1 + width)

\* the hashes of the model: zero, the genesis block hash of the tests of
\* message_blockdata.rs, and two more
ZeroHash == [i \in 1..HashLen |-> 0]
GenesisHash ==
    <<74, 94, 30, 75, 170, 184, 159, 58, 50, 81, 138, 136, 195, 27, 200, 127,
      97, 143, 118, 103, 62, 44, 199, 122, 178, 18, 123, 122, 253, 237, 163, 59>>
HashA == [i \in 1..HashLen |-> i]
HashB == [i \in 1..HashLen |-> 255 - i]
Hashes == {ZeroHash, GenesisHash, HashA, HashB}

\* enum InvType
InvTypes == {"Error", "Transaction", "Block", "WitnessBlock", "WitnessTransaction"}

\* mutant of inv_type_code: the two witness codes are exchanged
inv_type_code_swapped(inv_type) ==
    CASE inv_type = "Error" -> 0
      [] inv_type = "Transaction" -> 1
      [] inv_type = "Block" -> 2
      [] inv_type = "WitnessBlock" -> 1073741825
      [] inv_type = "WitnessTransaction" -> 1073741826

\* the match of Inventory::consensus_encode: 0x40000002 and 0x40000001 for
\* the witness kinds
inv_type_code(inv_type) ==
    CASE inv_type = "Error" -> 0
      [] inv_type = "Transaction" -> 1
      [] inv_type = "Block" -> 2
      [] inv_type = "WitnessBlock" -> 1073741826
      [] inv_type = "WitnessTransaction" -> 1073741825

\* Inventory::consensus_encode
Inventory_consensus_encode(v) ==
    le_bytes(inv_type_code(v.inv_type), 4) \o v.hash

\* Inventory::consensus_decode: the kind is decoded first, and an integer
\* other than 0, 1, 2 panics; then the hash is decoded
Inventory_consensus_decode(bytes) ==
    IF Len(bytes) < 4 THEN DecodeErr(ErrIncomplete)
    ELSE LET int_type == le_value(SubSeq(bytes, 1, 4))
         IN  IF int_type \notin {0, 1, 2}
             THEN DecodePanic("bad inventory type field")
             ELSE IF Len(bytes) < 4 + HashLen THEN DecodeErr(ErrIncomplete)
             ELSE DecodeOk([type |-> "inv",
                            inv_type |-> CASE int_type = 0 -> "Error"
                                           [] int_type = 1 -> "Transaction"
                                           [] int_type = 2 -> "Block",
                            hash |-> SubSeq(bytes, 5, 4 + HashLen)],
                           4 + HashLen)

\* mutant of GetBlocksMessage_fields: two fields are exchanged
GetBlocksMessage_fields_swapped == <<"version", "stop_hash", "locator_hashes">>

\* impl_consensus_encoding!(GetBlocksMessage, version, locator_hashes, stop_hash)
GetBlocksMessage_fields == <<"version", "locator_hashes", "stop_hash">>

\* impl_consensus_encoding!(GetHeadersMessage, version, locator_hashes, stop_hash)
GetHeadersMessage_fields == <<"version", "locator_hashes", "stop_hash">>

fields_of(type) ==
    CASE type = "getblocks" -> GetBlocksMessage_fields
      [] type = "getheaders" -> GetHeadersMessage_fields

\* encode of one field, by its type: u32, Vec<Sha256dHash>, Sha256dHash
encode_field(value, field) ==
    CASE field = "version" -> le_bytes(value, 4)
      [] field = "locator_hashes" -> var_int(Len(value)) \o concat(value)
      [] field = "stop_hash" -> value

\* decode of one field, by its type
decode_field(bytes, field) ==
    CASE field = "version" ->
            IF Len(bytes) < 4 THEN DecodeErr(ErrIncomplete)
            ELSE DecodeOk(le_value(SubSeq(bytes, 1, 4)), 4)
      [] field = "locator_hashes" ->
            LET n == var_int_decode(bytes)
            IN  IF n.kind # "Ok" THEN n
                ELSE IF Len(bytes) < n.consumed + n.value * HashLen
                THEN DecodeErr(ErrIncomplete)
                ELSE DecodeOk([i \in 1..n.value |->
                                  SubSeq(bytes, n.consumed + (i - 1) * HashLen + 1,
                                         n.consumed + i * HashLen)],
                              n.consumed + n.value * HashLen)
      [] field = "stop_hash" ->
            IF Len(bytes) < HashLen THEN DecodeErr(ErrIncomplete)
            ELSE DecodeOk(SubSeq(bytes, 1, HashLen), HashLen)

\* the encoder impl_consensus_encoding! generates: the fields in their order
RECURSIVE encode_fields(_, _)
encode_fields(v, fields) ==
    IF fields = <<>> THEN <<>>
    ELSE encode_field(v[Head(fields)], Head(fields)) \o encode_fields(v, Tail(fields))

\* the decoder impl_consensus_encoding! generates: the fields in their order,
\* the first failure is returned
RECURSIVE decode_fields(_, _, _, _)
decode_fields(bytes, fields, acc, consumed) ==
    IF fields = <<>> THEN DecodeOk(acc, consumed)
    ELSE LET f == decode_field(SubSeq(bytes, consumed + 1, Len(bytes)), Head(fields))
         IN  IF f.kind # "Ok" THEN f
             ELSE decode_fields(bytes, Tail(fields),
                                [acc EXCEPT ![Head(fields)] = f.value],
                                consumed + f.consumed)

\* consensus_encode of a value of one of the three types
consensus_encode(v) ==
    IF v.type = "inv" THEN Inventory_consensus_encode(v)
    ELSE encode_fields(v, fields_of(v.type))

\* consensus_decode of bytes as one of the three types
consensus_decode(type, bytes) ==
    IF type = "inv" THEN Inventory_consensus_decode(bytes)
    ELSE decode_fields(bytes, fields_of(type),
                       [type |-> type, version |-> 0, locator_hashes |-> <<>>,
                        stop_hash |-> ZeroHash], 0)

VARIABLES
    cpc,       \* "parked", "value", "wire", "decoded", "reencoded"
    ctype,     \* the type the bytes are decoded as
    cvalue,    \* the value that was encoded, if the run started from a value
    cwire,     \* the bytes on the wire
    cresult,   \* what consensus_decode returned for cwire
    cwire2     \* the bytes of the decoded value, encoded again

codec_vars == <<cpc, ctype, cvalue, cwire, cresult, cwire2>>
all_vars == <<vars, codec_vars>>

\* the codec is not used by the stream reader's runs
CodecParked ==
    /\ cpc = "parked"
    /\ ctype = "none"
    /\ cvalue = NoValue
    /\ cwire = <<>>
    /\ cresult = NoDecode
    /\ cwire2 = <<>>

\* the protocol versions of the model: the one of the tests, and another
Versions == {70002, 70001}
LocatorLists == UNION {[1..n -> Hashes] : n \in 0..MaxLocators}
Inventories == [type : {"inv"}, inv_type : InvTypes, hash : Hashes]
Requests == [type : {"getblocks", "getheaders"}, version : Versions,
             locator_hashes : LocatorLists, stop_hash : Hashes]

\* bytes that arrive from a peer to be decoded as an Inventory: any kind
\* integer, with the whole hash or cut short
InvKindInts == {0, 1, 2, 3, 1073741825, 1073741826, 2147483647}
InvWires ==
    {SubSeq(le_bytes(k, 4) \o h, 1, n) :
        k \in InvKindInts, h \in {ZeroHash, HashA}, n \in {0, 3, 4, 35, 36}}

\* the message of getblocks_message_test and getheaders_message_test
from_sat == <<114, 17, 1, 0, 1>> \o GenesisHash \o ZeroHash
RequestWires == {SubSeq(from_sat, 1, n) : n \in {0, 4, 5, 37, 68, 69}}

\* a run starts from a value to encode, or from bytes to decode
CodecInit ==
    /\ cwire2 = <<>>
    /\ cresult = NoDecode
    /\ \/ /\ cpc = "value"
          /\ cvalue \in Inventories \cup Requests
          /\ ctype = cvalue.type
          /\ cwire = <<>>
       \/ /\ cpc = "wire"
          /\ cvalue = NoValue
          /\ \/ ctype = "inv" /\ cwire \in InvWires
             \/ ctype \in {"getblocks", "getheaders"} /\ cwire \in RequestWires

Encode ==
    /\ cpc = "value"
    /\ cwire' = consensus_encode(cvalue)
    /\ cpc' = "wire"
    /\ UNCHANGED <<ctype, cvalue, cresult, cwire2>>

Decode ==
    /\ cpc = "wire"
    /\ cresult' = consensus_decode(ctype, cwire)
    /\ cpc' = "decoded"
    /\ UNCHANGED <<ctype, cvalue, cwire, cwire2>>

Reencode ==
    /\ cpc = "decoded"
    /\ cresult.kind = "Ok"
    /\ cwire2' = consensus_encode(cresult.value)
    /\ cpc' = "reencoded"
    /\ UNCHANGED <<ctype, cvalue, cwire, cresult>>

CodecNext ==
    \/ Encode /\ UNCHANGED vars
    \/ Decode /\ UNCHANGED vars
    \/ Reencode /\ UNCHANGED vars

\* the stream reader is not used by the codec's runs
StreamParked == stream = <<>> /\ buffer_size = 0 /\ Init

SpecCodecInit == StreamParked /\ CodecInit

SpecCodec == SpecCodecInit /\ [][CodecNext]_all_vars

Next ==
    \/ Call /\ UNCHANGED codec_vars
    \/ \E count \in 0..Min(buffer_size, Len(stream) - pos) :
           Read(count) /\ UNCHANGED codec_vars
    \/ \E err \in TransportErrors : ReadFail(err) /\ UNCHANGED codec_vars

\* StreamReader::new; the codec is parked
SpecInit == Init /\ CodecParked

Spec == SpecInit /\ [][Next]_all_vars

\* ---------------------------------------------------------------- claims
IsPrefix(s, t) == Len(s) <= Len(t) /\ SubSeq(t, 1, Len(s)) = s
IsSuffix(s, t) == Len(s) <= Len(t) /\ SubSeq(t, Len(t) - Len(s) + 1, Len(t)) = s

\* the bytes are the wire form of a list of valid messages
RECURSIVE is_wire(_)
is_wire(bytes) ==
    \/ bytes = <<>>
    \/ \E m \in Messages :
           /\ IsPrefix(serialize(m), bytes)
           /\ is_wire(SubSeq(bytes, Len(serialize(m)) + 1, Len(bytes)))

\* the list of valid messages whose wire form the bytes are
RECURSIVE sent(_)
sent(bytes) ==
    IF bytes = <<>> THEN <<>>
    ELSE LET m == CHOOSE x \in Messages : IsPrefix(serialize(x), bytes)
         IN  <<m>> \o sent(SubSeq(bytes, Len(serialize(m)) + 1, Len(bytes)))

\* the bytes the transport has delivered so far
received == SubSeq(stream, 1, pos)

TypeOK ==
    /\ stream \in Streams
    /\ pos \in 0..Len(stream)
    /\ buffer_size \in BufferSizes
    /\ pc \in {"idle", "reading"}
    /\ result.kind \in {"none", "Ok", "Err"}
    /\ pc = "reading" => messages = <<>> /\ Len(data) = buffer_size

\* C1: when the stream is the wire form of valid messages m1, m2, ..., the
\* messages returned so far by the successive calls, batch after batch, are
\* a prefix of m1, m2, ...: none twice, none before an earlier one.
C1_OrderedPrefix == is_wire(stream) => IsPrefix(delivered, sent(stream))

\* two different messages of one stream were returned by two calls
C1_Witness ==
    /\ is_wire(stream)
    /\ Len(sent(stream)) = 2
    /\ sent(stream)[1] # sent(stream)[2]
    /\ delivered = sent(stream)
    /\ result.kind = "Ok"
    /\ result.messages = <<sent(stream)[2]>>

\* C2: no message is lost: once a call has returned, every message that a
\* parse pass decoded and drained from the buffer has been handed to the
\* caller in an Ok batch.
C2_NoMessageLost == pc = "idle" => drained = delivered

\* C3: an outcome is Ok with a non-empty batch or one failure, never Ok
\* with an empty batch.
C3_OkNonEmpty ==
    /\ result.kind = "Ok" => Len(result.messages) > 0 /\ result.err = "none"
    /\ result.kind = "Err" => result.messages = <<>> /\ result.err # "none"

\* a call returned Ok after an iteration that had found no message
C3_Witness ==
    /\ result.kind = "Ok"
    /\ last.before # <<>>
    /\ last.count > 0

\* C4: the wire bytes of all messages returned so far, followed by
\* pending_bytes (unparsed), are exactly the bytes read from the transport
\* so far; and unparsed changes only by appending the newly read bytes at
\* its tail and removing whole decoded messages from its head.
C4_BufferIsSuffix ==
    serialize_all(delivered \o messages) \o unparsed = received

\* what is left of the original statement: unparsed is always a suffix of
\* the bytes read so far, and a step changes it only by appending the bytes
\* just read and removing a prefix that is the wire form of the messages
\* drained in that step.
C4_AppendTailRemoveHead ==
    [][ /\ IsSuffix(unparsed', SubSeq(stream, 1, pos'))
        /\ \E n \in 0..(Len(unparsed) + pos' - pos) :
              LET grown == unparsed \o SubSeq(stream, pos + 1, pos')
              IN  /\ unparsed' = SubSeq(grown, n + 1, Len(grown))
                  /\ drained' = drained \o sent(SubSeq(grown, 1, n))
      ]_vars

\* C5: a stream that is one valid message, delivered in any chunking (in
\* one read, or split in two at any offset inside it), makes read_messages
\* return that single message and leave unparsed empty; before the last
\* byte has arrived no call returns and the bytes stay buffered.
C5_ChunkingIndependence ==
    \A m \in Messages :
        stream = serialize(m) =>
            /\ result.kind = "Ok" => result.messages = <<m>> /\ unparsed = <<>>
            /\ (pos = Len(stream) /\ last.read = "ok" /\ last.count > 0)
                   => result.kind = "Ok"
            /\ pos < Len(stream) => result.kind # "Ok" /\ unparsed = received

\* a message with a payload arrived in two parts, split inside the header
C5_Witness ==
    \E m \in Messages :
        /\ stream = serialize(m)
        /\ Len(stream) > HeaderLen
        /\ last.before = SubSeq(stream, 1, 1)
        /\ last.chunk = SubSeq(stream, 2, Len(stream))
        /\ result.kind = "Ok"
        /\ result.messages = <<m>>

\* C6: when one transport read into an empty buffer delivers the wire form
\* of two or more valid messages, the call returns all of them in their
\* order and leaves unparsed empty.
C6_MultiMessageBatch ==
    (/\ last.read = "ok"
     /\ last.before = <<>>
     /\ is_wire(last.chunk)
     /\ Len(sent(last.chunk)) >= 2)
        => /\ result.kind = "Ok"
           /\ result.messages = sent(last.chunk)
           /\ unparsed = <<>>

\* one read delivered two different messages
C6_Witness ==
    /\ last.read = "ok"
    /\ last.before = <<>>
    /\ is_wire(last.chunk)
    /\ Len(sent(last.chunk)) = 2
    /\ sent(last.chunk)[1] # sent(last.chunk)[2]
    /\ result.messages = sent(last.chunk)

\* the buffer a parse pass was run on
parsed_buffer == last.before \o last.chunk

\* C7: a parse pass over a non-empty strict prefix of a valid message
\* extracts nothing, reports no error and leaves unparsed as it was; a pass
\* over the whole message extracts exactly that message and leaves unparsed
\* empty.
C7_PartialThenWhole ==
    \A m \in Messages :
        /\ (/\ last.parsed
            /\ parsed_buffer # <<>>
            /\ IsPrefix(parsed_buffer, serialize(m))
            /\ parsed_buffer # serialize(m))
               => /\ last.pass.messages = <<>>
                  /\ last.pass.err = "none"
                  /\ last.pass.unparsed = parsed_buffer
                  /\ unparsed = parsed_buffer
        /\ (last.parsed /\ parsed_buffer = serialize(m))
               => /\ last.pass.messages = <<m>>
                  /\ last.pass.err = "none"
                  /\ last.pass.unparsed = <<>>
                  /\ unparsed = <<>>

\* a pass over the header of a message with a payload, before the payload
C7_Witness ==
    \E m \in Messages :
        /\ last.parsed
        /\ Len(serialize(m)) > HeaderLen
        /\ parsed_buffer = SubSeq(serialize(m), 1, HeaderLen)
        /\ unparsed = parsed_buffer
        /\ pc = "reading"

\* C8: an incomplete decode is never returned to the caller: the pass
\* stops, keeps the messages collected so far and the undecoded bytes, and
\* read_messages returns the collected messages or goes on reading.
C8_IncompleteAbsorbed ==
    /\ result.err # ErrIncomplete
    /\ (last.parsed /\ last.pass.stop = "incomplete") =>
           /\ last.pass.err = "none"
           /\ last.pass.messages = last.pass.drained
           /\ unparsed = last.pass.unparsed
           /\ unparsed # <<>>
           /\ IsSuffix(unparsed, parsed_buffer)
           /\ parsed_buffer = serialize_all(last.pass.drained) \o unparsed
           /\ deserialize_partial(unparsed).kind = "Incomplete"
           /\ IF last.pass.messages = <<>>
              THEN pc = "reading" /\ result.kind = "none"
              ELSE /\ pc = "idle"
                   /\ result.kind = "Ok"
                   /\ result.messages = last.pass.messages

\* a pass collected a message and then stopped on an incomplete one
C8_Witness ==
    /\ last.parsed
    /\ last.pass.stop = "incomplete"
    /\ Len(last.pass.messages) = 1
    /\ result.kind = "Ok"
    /\ unparsed # <<>>

\* C9: on a malformed decode the pass stops at once (the failing attempt is
\* its last), the call returns without another transport read, and the
\* caller gets exactly the decoder's error.
C9_MalformedPropagated ==
    /\ (last.parsed /\ last.pass.stop = "malformed") =>
           /\ pc = "idle"
           /\ result.kind = "Err"
           /\ result.err \in MalformedErrors
           /\ deserialize_partial(unparsed).kind = "Malformed"
           /\ result.err = deserialize_partial(unparsed).err
           /\ last.pass.attempts = Len(last.pass.drained) + 1
           /\ parsed_buffer = serialize_all(last.pass.drained) \o unparsed
    /\ result.err \in MalformedErrors =>
           last.parsed /\ last.pass.stop = "malformed"

\* a pass decoded a message and then met an unrecognised command
C9_Witness ==
    /\ last.parsed
    /\ last.pass.stop = "malformed"
    /\ last.pass.attempts = 2
    /\ result.err = ErrCommand

\* C10: when the transport read fails, the call returns that failure at
\* once: no parse pass runs, no byte is taken from the transport and
\* unparsed is left as it was.
C10_TransportFailure ==
    [][ (pc = "reading" /\ result'.err \in TransportErrors) =>
            /\ pc' = "idle"
            /\ result'.kind = "Err"
            /\ ~last'.parsed
            /\ unparsed' = unparsed
            /\ pos' = pos
            /\ drained' = drained
            /\ delivered' = delivered
      ]_vars

\* a read failed while a part of a message was buffered
C10_Witness ==
    /\ last.read = "failed"
    /\ result.err \in TransportErrors
    /\ unparsed # <<>>
    /\ pc = "idle"

\* ------------------------------------------- a transport that closes cleanly
\* The transport reaches end-of-stream once all its bytes are delivered: from
\* then on every read returns zero bytes without error (a TCP peer that shut
\* down, a file at its end). Until then a read may still fail.
NextEof ==
    \/ Call /\ UNCHANGED codec_vars
    \/ \E count \in 0..Min(buffer_size, Len(stream) - pos) :
           Read(count) /\ UNCHANGED codec_vars
    \/ \E err \in TransportErrors :
           pos < Len(stream) /\ ReadFail(err) /\ UNCHANGED codec_vars

\* the calling thread keeps running: a read that can return does return
SpecEof == SpecInit /\ [][NextEof]_all_vars /\ WF_all_vars(NextEof)

\* C11: once the transport is at end-of-stream, a running call returns a
\* terminal failure: it never sits in a state where its only step is a
\* zero-byte read that changes nothing.
C11_EofReturns ==
    (pc = "reading" /\ pos = Len(stream)) => ENABLED <<NextEof>>_vars

\* C11, as a liveness property: a call running at end-of-stream eventually
\* returns.
C11_EofEventuallyReturns ==
    [](pc = "reading" /\ pos = Len(stream) => <>(pc = "idle"))

\* C12: Failed is terminal: once a call has returned a malformed-decode or
\* transport failure, nothing happens on the instance any more: no call is
\* accepted, no transport read is made, the buffer is not touched.
C12_FailedTerminal ==
    [][ (pc = "idle" /\ result.kind = "Err") =>
            /\ pc' = "idle"
            /\ result' = result
            /\ pos' = pos
            /\ unparsed' = unparsed
      ]_vars

\* C13: every step of a running call is one loop iteration with exactly one
\* transport read; as soon as the parse pass after a read yields a message
\* the call returns that batch, without another read; so a message that
\* arrives alone in its own read is returned alone by the call that read it.
C13_OneReadThenReturn ==
    [][ pc = "reading" =>
            /\ last'.read \in {"ok", "failed"}
            /\ last'.before = unparsed
            /\ last'.read = "ok" =>
                   /\ last'.parsed
                   /\ last'.count \in 0..buffer_size
                   /\ pos' = pos + last'.count
                   /\ last'.chunk = SubSeq(stream, pos + 1, pos')
            /\ (last'.parsed /\ Len(last'.pass.messages) > 0) =>
                   /\ pc' = "idle"
                   /\ result' = [kind |-> "Ok", messages |-> last'.pass.messages,
                                 err |-> "none"]
                   /\ delivered' = delivered \o last'.pass.messages
            /\ (last'.parsed /\ last'.pass.messages = <<>> /\ last'.pass.err = "none") =>
                   /\ pc' = "reading"
                   /\ result' = result
                   /\ delivered' = delivered
            /\ \A m \in Messages :
                   (last'.read = "ok" /\ unparsed = <<>> /\ last'.chunk = serialize(m)) =>
                       /\ result'.kind = "Ok"
                       /\ result'.messages = <<m>>
                       /\ unparsed' = <<>>
      ]_vars

\* two messages arrived in two reads and were returned by two calls, the
\* second one alone by the call that read it
C13_Witness ==
    /\ Len(delivered) = 2
    /\ pos = Len(stream)
    /\ result.kind = "Ok"
    /\ result.messages = <<delivered[2]>>
    /\ last.before = <<>>
    /\ last.chunk = serialize(delivered[2])
    /\ Len(last.chunk) < pos

\* ------------------------------------------------- claims about the codec
RequestTypes == {"getblocks", "getheaders"}

\* C14: round trip of Inventory: for every kind and hash, decoding the bytes
\* of consensus_encode(v) yields v again and consumes exactly the 36 bytes.
C14_InventoryRoundTrip ==
    (cpc \in {"decoded", "reencoded"} /\ cvalue.type = "inv") =>
        /\ Len(cwire) = 36
        /\ cresult = DecodeOk(cvalue, 36)

\* the kind integers that stand for a kind of InvType
RecognizedKindInts == {0, 1, 2, 1073741825, 1073741826}

\* C15: decoding an Inventory whose kind integer is not recognised ends in a
\* malformed-data error returned as a value, never in a panic.
C15_UnknownKindIsError ==
    (/\ cpc = "decoded"
     /\ ctype = "inv"
     /\ Len(cwire) >= 4
     /\ le_value(SubSeq(cwire, 1, 4)) \notin RecognizedKindInts)
        => /\ cresult.kind = "Err"
           /\ cresult.err # ErrIncomplete

\* the four bytes the kind is written as
KindBytes(inv_type) ==
    CASE inv_type = "Error" -> <<0, 0, 0, 0>>
      [] inv_type = "Transaction" -> <<1, 0, 0, 0>>
      [] inv_type = "Block" -> <<2, 0, 0, 0>>
      [] inv_type = "WitnessBlock" -> <<2, 0, 0, 64>>
      [] inv_type = "WitnessTransaction" -> <<1, 0, 0, 64>>

\* C16: the kind is written as the 4-byte little-endian value 0, 1, 2,
\* 0x40000002 (WitnessBlock), 0x40000001 (WitnessTransaction), followed by
\* the raw 32-byte hash; the five codes differ; and the kind integers 0, 1, 2
\* decode to Error, Transaction, Block.
C16_KindTagsExact ==
    /\ (cpc # "value" /\ cvalue.type = "inv") =>
           /\ cwire = KindBytes(cvalue.inv_type) \o cvalue.hash
           /\ \A t \in InvTypes \ {cvalue.inv_type} :
                  SubSeq(cwire, 1, 4) # le_bytes(inv_type_code(t), 4)
    /\ (/\ cpc = "decoded"
        /\ ctype = "inv"
        /\ Len(cwire) >= 36
        /\ \E k \in 0..2 : SubSeq(cwire, 1, 4) = <<k, 0, 0, 0>>)
           => /\ cresult.kind = "Ok"
              /\ cresult.value.inv_type = CASE cwire[1] = 0 -> "Error"
                                            [] cwire[1] = 1 -> "Transaction"
                                            [] cwire[1] = 2 -> "Block"
              /\ cresult.value.hash = SubSeq(cwire, 5, 36)
              /\ cresult.consumed = 36

\* a WitnessBlock inventory was encoded
C16_Witness ==
    /\ cpc = "wire"
    /\ cvalue.type = "inv"
    /\ cvalue.inv_type = "WitnessBlock"
    /\ cvalue.hash = HashA
    /\ SubSeq(cwire, 1, 5) = <<2, 0, 0, 64, 1>>

\* C17: for GetBlocksMessage and GetHeadersMessage the fields are written
\* as version (4 bytes little-endian), count-prefixed locator_hashes,
\* stop_hash, in that order; decoding the bytes of a message yields the
\* message again, its locator hashes in their order and a zero stop_hash
\* still zero; and decoding wire bytes and encoding the result again
\* reproduces the bytes.
C17_RequestRoundTrip ==
    /\ (cpc # "value" /\ cvalue.type \in RequestTypes) =>
           /\ cwire = le_bytes(cvalue.version, 4)
                        \o <<Len(cvalue.locator_hashes)>>
                        \o concat(cvalue.locator_hashes)
                        \o cvalue.stop_hash
           /\ cvalue.version = 70002 => SubSeq(cwire, 1, 4) = <<114, 17, 1, 0>>
    /\ (cpc \in {"decoded", "reencoded"} /\ cvalue.type \in RequestTypes) =>
           /\ cresult = DecodeOk(cvalue, Len(cwire))
           /\ cresult.value.locator_hashes = cvalue.locator_hashes
           /\ cvalue.stop_hash = ZeroHash => cresult.value.stop_hash = ZeroHash
    /\ (cpc = "reencoded" /\ ctype \in RequestTypes) =>
           cwire2 = SubSeq(cwire, 1, cresult.consumed)
    /\ (cpc = "reencoded" /\ ctype \in RequestTypes /\ cwire = from_sat) =>
           /\ cresult.value.version = 70002
           /\ cresult.value.locator_hashes = <<GenesisHash>>
           /\ cresult.value.stop_hash = ZeroHash
           /\ cwire2 = from_sat

\* a getblocks message with three different locator hashes and a zero
\* stop_hash went through encode, decode and encode
C17_Witness ==
    /\ cpc = "reencoded"
    /\ cvalue.type = "getblocks"
    /\ cvalue.locator_hashes = <<HashA, GenesisHash, HashB>>
    /\ cvalue.stop_hash = ZeroHash
    /\ cresult.value = cvalue
    /\ cwire2 = cwire

\* --------------------------------------------------------------- liveness
\* one iteration of the loop over a transport that never fails: the read
\* returns at least one byte when buffer_size >= 1 and bytes are left, blocks
\* when none are left, and returns 0 for an empty scratch buffer
ReadLive ==
    \E count \in (IF buffer_size = 0
                  THEN {0}
                  ELSE 1..Min(buffer_size, Len(stream) - pos)) :
        Read(count) /\ UNCHANGED codec_vars

NextLive ==
    \/ Call /\ UNCHANGED codec_vars
    \/ ReadLive

\* the loop of read_messages keeps running while the transport delivers
SpecLive == SpecInit /\ [][NextLive]_all_vars /\ WF_all_vars(ReadLive)

\* the bytes buffered and still to come begin with a complete valid message
head_message_pending ==
    deserialize_partial(unparsed \o SubSeq(stream, pos + 1, Len(stream))).kind = "Ok"

\* C18: with a chunk size of at least 1 and a transport that delivers, without
\* failing, the bytes of a complete valid message at the head of the stream,
\* a read_messages call eventually returns a non-empty batch.
C18_EventuallyBatch ==
    (pc = "reading" /\ buffer_size >= 1 /\ head_message_pending)
        ~> (pc = "idle" /\ result.kind = "Ok" /\ result.messages # <<>>)

\* under the same conditions the call eventually returns
C18_EventuallyReturns ==
    (pc = "reading" /\ buffer_size >= 1 /\ head_message_pending) ~> (pc = "idle")

\* C19: a transport read that returns count bytes, 0 <= count <= buffer_size,
\* appends exactly those bytes, in order, to the tail of unparsed before the
\* parse pass takes messages from its head: a short read is no error, a
\* zero-byte read leaves unparsed as it was, and no byte of the scratch
\* buffer beyond position count is appended.
C19_ReadAppendsCount ==
    [][ (pc = "reading" /\ last'.read = "ok") =>
            LET count == pos' - pos
                chunk == SubSeq(stream, pos + 1, pos')
            IN  /\ count \in 0..buffer_size
                /\ IsSuffix(unparsed', unparsed \o chunk)
                /\ last'.pass.drained = <<>> => unparsed' = unparsed \o chunk
                /\ count = 0 => unparsed' = unparsed
                /\ (pc' = "idle" /\ result'.kind = "Err") =>
                       result'.err \in MalformedErrors ]_vars

\* a zero-byte read was made while the scratch buffer still held the two
\* bytes of an earlier read
C19_Witness ==
    /\ pc = "reading"
    /\ last.read = "ok"
    /\ last.count = 0
    /\ Len(data) = MaxBufferSize
    /\ data[2] # 0
    /\ unparsed = <<data[1], data[2]>>
    /\ last.before = unparsed

\* C20: a parse pass terminates: every successful decode removes at least one
\* byte, the number of decode attempts is at most the length of the buffer at
\* the start of the pass plus one, and the pass ends on an empty buffer, an
\* incomplete condition or a malformed condition.
C20_ParsePassBounded ==
    last.parsed =>
        LET p == last.pass
        IN  /\ p.stop \in {"empty", "incomplete", "malformed"}
            /\ p.stop = "empty" => p.unparsed = <<>>
            /\ p.stop = "incomplete" =>
                   deserialize_partial(p.unparsed).kind = "Incomplete"
            /\ p.stop = "malformed" =>
                   deserialize_partial(p.unparsed).kind = "Malformed"
            /\ p.attempts = Len(p.drained) + (IF p.stop = "empty" THEN 0 ELSE 1)
            /\ Len(p.unparsed) + Len(p.drained) <= Len(parsed_buffer)
            /\ p.attempts <= Len(parsed_buffer) + 1

\* a pass decoded two messages and stopped at an incomplete third one
C20_Witness ==
    /\ last.parsed
    /\ Len(last.pass.drained) = 2
    /\ last.pass.stop = "incomplete"
    /\ last.pass.attempts = 3
    /\ last.pass.unparsed # <<>>

\* C21: whenever read_messages returns Ok, unparsed is empty or holds the
\* beginning of one message that is still incomplete: no complete decodable
\* message is left at the head of the buffer between calls.
C21_NoMessageLeftBehind ==
    (pc = "idle" /\ result.kind = "Ok") =>
        /\ unparsed = <<>> \/ deserialize_partial(unparsed).kind = "Incomplete"
        /\ deserialize_partial(unparsed).kind # "Ok"
        /\ Len(unparsed) < HeaderLen + MaxPayloadLen
        /\ \A m \in Messages : ~IsPrefix(serialize(m), unparsed)

\* a call returned a batch and left the header of a message whose payload
\* has not arrived
C21_Witness ==
    /\ pc = "idle"
    /\ result.kind = "Ok"
    /\ Len(result.messages) = 1
    /\ Len(unparsed) = HeaderLen
    /\ unparsed[2] = 1
    /\ pos < Len(stream)

\* the bytes at the head of unparsed fail to decode
malformed_head == deserialize_partial(unparsed).kind = "Malformed"

\* C22: after read_messages has failed with a malformed-decode error the
\* malformed bytes stay at the head of unparsed: every later call whose
\* transport read completes fails again with a malformed-decode error, and
\* the instance never returns a batch again.
C22_MalformedIsSticky ==
    [][ /\ (pc = "reading" /\ pc' = "idle" /\ result'.kind = "Err"
              /\ result'.err \in MalformedErrors) => malformed_head'
        /\ malformed_head =>
               /\ malformed_head'
               /\ result'.kind # "Ok"
               /\ delivered' = delivered
               /\ (pc = "reading" /\ last'.read = "ok") =>
                      /\ pc' = "idle"
                      /\ result'.kind = "Err"
                      /\ result'.err \in MalformedErrors
                      /\ result'.err = deserialize_partial(unparsed).err ]_vars

\* a call that began with malformed bytes at the head of unparsed read more
\* bytes and failed with the malformed-decode error again
C22_Witness ==
    /\ pc = "idle"
    /\ result.kind = "Err"
    /\ result.err \in MalformedErrors
    /\ last.read = "ok"
    /\ last.count >= 1
    /\ deserialize_partial(last.before).kind = "Malformed"
    /\ unparsed = last.before \o last.chunk

====
